---- MODULE Spec2Model ----
(***************************************************************************)
(* Model of the cricket video analysis backend:                            *)
(*   src/backend/server.py                        job store, submit/get    *)
(*                                                handlers, background     *)
(*                                                runner                   *)
(*   src/backend/video_analysis/cricket_analyzer.py   frame loop, metric   *)
(*                                                aggregation, scoring     *)
(*                                                                         *)
(* Request handlers and the runner coroutine execute on one asyncio event  *)
(* loop, so each stretch of code between two awaits is one atomic action.  *)
(* analyze_video_file runs in a worker thread (asyncio.to_thread) and is   *)
(* interleaved with everything else at the granularity of one frame.       *)
(*                                                                         *)
(* Numbers that are floats in the program are exact rationals <<n, d>>     *)
(* with d > 0, in lowest terms.                                            *)
(***************************************************************************)
EXTENDS Integers, Sequences, FiniteSets, TLC

\* ------------------------------------------------------------------ bounds
\* Largest number of jobs ever submitted.
MaxJobs == 2
\* Largest number of frames cap.read() delivers for one video.
MaxFrames == 1
\* Longest metrics sequence evaluate_technique is called with on its own.
MaxMetrics == 2
\* Largest number of frames of a video analyze_video_file is run on alone.
MaxVideo == 3

\* ------------------------------------------------------- optional values
\* Python None and a present value v.
None == <<>>
Some(v) == <<v>>

\* --------------------------------------------------------------- rationals
Abs(x) == IF x < 0 THEN -x ELSE x

RECURSIVE GCD(_, _)
GCD(a, b) == IF b = 0 THEN a ELSE GCD(b, a % b)

\* n/d in lowest terms, d > 0.
Rat(n, d) == IF n = 0 THEN <<0, 1>>
             ELSE LET g == GCD(Abs(n), d) IN <<n \div g, d \div g>>
Whole(n) == <<n, 1>>
Zero == Whole(0)
RAdd(a, b) == Rat(a[1] * b[2] + b[1] * a[2], a[2] * b[2])
RSub(a, b) == Rat(a[1] * b[2] - b[1] * a[2], a[2] * b[2])
RMulInt(a, k) == Rat(a[1] * k, a[2])
RDivInt(a, k) == Rat(a[1], a[2] * k)
RAbs(a) == <<Abs(a[1]), a[2]>>
RLt(a, b) == a[1] * b[2] < b[1] * a[2]
RLeq(a, b) == a[1] * b[2] <= b[1] * a[2]
RMax(a, b) == IF RLt(a, b) THEN b ELSE a
RMin(a, b) == IF RLt(b, a) THEN b ELSE a
\* int(x) of Python: truncation towards zero.
Trunc(a) == IF a[1] >= 0 THEN a[1] \div a[2] ELSE -((-a[1]) \div a[2])
\* round(x) of Python 3 and of numpy: to the nearest integer, ties to even.
Round(a) ==
    LET f == a[1] \div a[2]
        twiceRest == 2 * (a[1] - f * a[2])
    IN  IF twiceRest < a[2] THEN f
        ELSE IF twiceRest > a[2] THEN f + 1
        ELSE IF f % 2 = 0 THEN f ELSE f + 1

\* The float nan, which numpy's 0.0 / 0.0 yields. Every ordering comparison
\* with it is false in the program; RLt(Zero, NaN) is FALSE as well.
NaN == <<0, 0>>
IsFinite(a) == a[2] # 0

RECURSIVE RSum(_)
RSum(s) == IF s = <<>> THEN Zero ELSE RAdd(Head(s), RSum(Tail(s)))
\* np.mean of a non-empty list.
Mean(s) == RDivInt(RSum(s), Len(s))

\* A variant of the filter that keeps the zeros: [v for v in s if v >= 0].
RECURSIVE PositiveValues_NonNegative(_)
PositiveValues_NonNegative(s) ==
    IF s = <<>> THEN <<>>
    ELSE IF IsFinite(Head(s)) /\ RLeq(Zero, Head(s))
         THEN <<Head(s)>> \o PositiveValues_NonNegative(Tail(s))
    ELSE PositiveValues_NonNegative(Tail(s))

\* [v for v in s if v > 0], in order.
RECURSIVE PositiveValues(_)
PositiveValues(s) ==
    IF s = <<>> THEN <<>>
    ELSE IF RLt(Zero, Head(s)) THEN <<Head(s)>> \o PositiveValues(Tail(s))
    ELSE PositiveValues(Tail(s))

\* dict.update: the keys of upd are added to, or replaced in, rec.
Update(rec, upd) ==
    [k \in DOMAIN rec \cup DOMAIN upd |-> IF k \in DOMAIN upd THEN upd[k] ELSE rec[k]]

\* ------------------------------------------------------------- evaluation
MetricNames == {"elbow_angle", "spine_lean", "head_alignment", "foot_angle"}
Categories == {"footwork", "head_position", "swing_control", "balance", "follow_through"}

\* self.thresholds: the bands _score_metric is called with.
Thresholds ==
    [elbow_angle |-> [good |-> <<90, 135>>, excellent |-> <<105, 125>>],
     spine_lean  |-> [good |-> <<10, 30>>,  excellent |-> <<15, 25>>],
     foot_angle  |-> [good |-> <<15, 45>>,  excellent |-> <<20, 35>>]]

\* np.random.random() lies in [0, 1); it is modelled by three of its values,
\* which reach every outcome of int(r * 2) and of int(r * 3).
RandomDraws == {Zero, Rat(1, 2), Rat(2, 3)}

\* A variant of _score_metric whose band tests exclude the bounds
\* (lo < value < hi).
ScoreMetric_ExclusiveBounds(value, thresholds, r) ==
    LET excellent_range == thresholds.excellent
        good_range == thresholds.good
    IN  IF value = Zero THEN 1
        ELSE IF RLt(Whole(excellent_range[1]), value) /\ RLt(value, Whole(excellent_range[2]))
             THEN 9 + Trunc(RMulInt(r, 2))
        ELSE IF RLt(Whole(good_range[1]), value) /\ RLt(value, Whole(good_range[2]))
             THEN 6 + Trunc(RMulInt(r, 3))
        ELSE LET excellent_center == Rat(excellent_range[1] + excellent_range[2], 2)
                 distance == RAbs(RSub(value, excellent_center))
                 steps == Trunc(RDivInt(distance, 10))
             IN  IF 6 - steps < 1 THEN 1 ELSE 6 - steps

\* A variant of _score_metric that loses a point for every 20 degrees from
\* the midpoint of the excellent range.
ScoreMetric_CoarseDistance(value, thresholds, r) ==
    LET excellent_range == thresholds.excellent
        good_range == thresholds.good
    IN  IF value = Zero THEN 1
        ELSE IF RLeq(Whole(excellent_range[1]), value) /\ RLeq(value, Whole(excellent_range[2]))
             THEN 9 + Trunc(RMulInt(r, 2))
        ELSE IF RLeq(Whole(good_range[1]), value) /\ RLeq(value, Whole(good_range[2]))
             THEN 6 + Trunc(RMulInt(r, 3))
        ELSE LET excellent_center == Rat(excellent_range[1] + excellent_range[2], 2)
                 distance == RAbs(RSub(value, excellent_center))
                 steps == Trunc(RDivInt(distance, 20))
             IN  IF 6 - steps < 1 THEN 1 ELSE 6 - steps

\* _score_metric with r the value np.random.random() returns if it is called.
ScoreMetric(value, thresholds, r) ==
    LET excellent_range == thresholds.excellent
        good_range == thresholds.good
    IN  IF value = Zero THEN 1
        ELSE IF RLeq(Whole(excellent_range[1]), value) /\ RLeq(value, Whole(excellent_range[2]))
             THEN 9 + Trunc(RMulInt(r, 2))
        ELSE IF RLeq(Whole(good_range[1]), value) /\ RLeq(value, Whole(good_range[2]))
             THEN 6 + Trunc(RMulInt(r, 3))
        ELSE LET excellent_center == Rat(excellent_range[1] + excellent_range[2], 2)
                 distance == RAbs(RSub(value, excellent_center))
                 steps == Trunc(RDivInt(distance, 10))
             IN  IF 6 - steps < 1 THEN 1 ELSE 6 - steps

GetFootworkFeedback(foot_angle) ==
    << IF RLt(foot_angle, Whole(15))
         THEN "Try to point your front foot more towards the target"
       ELSE IF RLt(Whole(45), foot_angle)
         THEN "Front foot is pointing too wide, align more towards the pitch"
       ELSE "Good foot positioning towards the target",
       "Focus on balanced weight transfer during the shot" >>

GetHeadFeedback(head_alignment) ==
    IF RLt(Rat(2, 10), head_alignment)
    THEN << "Keep your head more directly over your front knee",
            "This will improve balance and shot accuracy" >>
    ELSE << "Excellent head position over the front knee" >>

GetSwingFeedback(elbow_angle) ==
    << IF RLt(elbow_angle, Whole(90))
         THEN "Try to keep your front elbow higher during the shot"
       ELSE IF RLt(Whole(135), elbow_angle)
         THEN "Front elbow is too high, lower it slightly for better control"
       ELSE "Good elbow positioning for controlled swing",
       "Maintain smooth acceleration through the ball" >>

\* A variant of _get_balance_feedback that affirms only from the lower bound
\* of the excellent range on.
GetBalanceFeedback_FromExcellent(spine_lean) ==
    << IF RLt(spine_lean, Whole(15))
         THEN "Lean slightly forward for better balance and power"
       ELSE IF RLt(Whole(30), spine_lean)
         THEN "Reduce forward lean to maintain better balance"
       ELSE "Good spine angle for balanced shot execution" >>

GetBalanceFeedback(spine_lean) ==
    << IF RLt(spine_lean, Whole(10))
         THEN "Lean slightly forward for better balance and power"
       ELSE IF RLt(Whole(30), spine_lean)
         THEN "Reduce forward lean to maintain better balance"
       ELSE "Good spine angle for balanced shot execution" >>

GetFollowthroughFeedback(score) ==
    IF score >= 8
    THEN << "Excellent overall technique", "Continue practicing for consistency" >>
    ELSE IF score >= 6
    THEN << "Good technique with room for refinement", "Focus on identified weak areas" >>
    ELSE << "Technique needs improvement", "Practice basic fundamentals regularly" >>

IncompleteMessage == "Analysis incomplete - please ensure clear video quality"

\* A variant of the default evaluation with the lowest score in every category.
DefaultEvaluation_AllOnes ==
    [scores |-> [c \in Categories |-> 1],
     feedback |-> [c \in Categories |-> <<IncompleteMessage>>],
     metrics_summary |-> [m \in MetricNames |-> Zero]]

\* _default_evaluation
DefaultEvaluation ==
    [scores |-> [c \in Categories |-> 5],
     feedback |-> [c \in Categories |-> <<IncompleteMessage>>],
     metrics_summary |-> [m \in MetricNames |-> Zero]]

\* The values of one metric over the frames: m.get(metric, 0) for each frame.
RECURSIVE MetricValues(_, _)
MetricValues(all_metrics, metric) ==
    IF all_metrics = <<>> THEN <<>>
    ELSE << IF metric \in DOMAIN Head(all_metrics) THEN Head(all_metrics)[metric] ELSE Zero >>
         \o MetricValues(Tail(all_metrics), metric)

\* avg_metrics: per metric the mean of the values > 0, or 0 without any.
AvgMetrics(all_metrics) ==
    [metric \in MetricNames |->
        LET values == PositiveValues(MetricValues(all_metrics, metric))
        IN  IF values # <<>> THEN Mean(values) ELSE Zero]

\* A variant of the head score without the clamp of line 221.
HeadScore_NoClamp(head_alignment) ==
    Round(RSub(Whole(10), RMulInt(head_alignment, 10)))

\* A variant of the head score that truncates (int) where the code rounds.
HeadScore_Truncated(head_alignment) ==
    Trunc(RMax(Whole(1), RMin(Whole(10), RSub(Whole(10), RMulInt(head_alignment, 10)))))

\* scores['head_position']
HeadScore(head_alignment) ==
    Round(RMax(Whole(1), RMin(Whole(10), RSub(Whole(10), RMulInt(head_alignment, 10)))))

\* A variant of the follow-through score that leaves the balance score out of
\* the mean.
FollowThroughScore_WithoutBalance(foot_score, head_score, swing_score, balance_score) ==
    Round(Rat(foot_score + head_score + swing_score, 3))

\* scores['follow_through']: the four scores present when it is computed.
FollowThroughScore(foot_score, head_score, swing_score, balance_score) ==
    Round(Rat(foot_score + head_score + swing_score + balance_score, 4))

\* evaluate_technique; rFoot, rSwing and rBalance are the random numbers its
\* three _score_metric calls draw.
EvaluateTechnique(all_metrics, rFoot, rSwing, rBalance) ==
    IF all_metrics = <<>> THEN DefaultEvaluation
    ELSE
    LET avg_metrics == AvgMetrics(all_metrics)
        foot_score == ScoreMetric(avg_metrics.foot_angle, Thresholds.foot_angle, rFoot)
        head_score == HeadScore(avg_metrics.head_alignment)
        swing_score == ScoreMetric(avg_metrics.elbow_angle, Thresholds.elbow_angle, rSwing)
        balance_score == ScoreMetric(avg_metrics.spine_lean, Thresholds.spine_lean, rBalance)
        follow_through_score ==
            FollowThroughScore(foot_score, head_score, swing_score, balance_score)
    IN  [scores |-> [footwork |-> foot_score,
                     head_position |-> head_score,
                     swing_control |-> swing_score,
                     balance |-> balance_score,
                     follow_through |-> follow_through_score],
         feedback |-> [footwork |-> GetFootworkFeedback(avg_metrics.foot_angle),
                       head_position |-> GetHeadFeedback(avg_metrics.head_alignment),
                       swing_control |-> GetSwingFeedback(avg_metrics.elbow_angle),
                       balance |-> GetBalanceFeedback(avg_metrics.spine_lean),
                       follow_through |-> GetFollowthroughFeedback(follow_through_score)],
         metrics_summary |-> avg_metrics]

\* ---------------------------------------------------------------- geometry
\* Landmark coordinates: the corners of the normalised frame. The vectors
\* between such points have components in {-1, 0, 1}, so every angle between
\* them is a multiple of 45 degrees and is computed exactly.
Coordinates == {0, 1}
\* A landmark [x, y, z], and the empty list as a malformed one.
Points == {<<x, y, 0>> : x \in Coordinates, y \in Coordinates} \cup {<<>>}

\* point[:2]
FirstTwo(point) == SubSeq(point, 1, IF Len(point) < 2 THEN Len(point) ELSE 2)
Dot(v, w) == v[1] * w[1] + v[2] * w[2]

\* math.degrees(np.arccos(c)) for the cosine with the given sign whose square
\* is the given rational: the values between vectors of the grid.
ArcCosDegrees(sign, square) ==
    CASE square = Whole(1) /\ sign > 0 -> Whole(0)
      [] square = Rat(1, 2) /\ sign > 0 -> Whole(45)
      [] square = Zero -> Whole(90)
      [] square = Rat(1, 2) /\ sign < 0 -> Whole(135)
      [] square = Whole(1) /\ sign < 0 -> Whole(180)

\* calculate_angle. Arrays of different lengths do not broadcast and the
\* subtraction raises, which the except clause answers with 0.0. A vector of
\* length zero makes the norm product 0.0 and the dot product 0.0: numpy
\* divides 0.0 by 0.0 to nan with a warning and raises nothing, and clip,
\* arccos and math.degrees pass the nan on. Three empty lists give empty
\* vectors, whose dot product and norms are 0.0 as well.
CalculateAngle(point1, point2, point3) ==
    LET p1 == FirstTwo(point1)
        p2 == FirstTwo(point2)
        p3 == FirstTwo(point3)
    IN  IF Len(p1) # Len(p2) \/ Len(p3) # Len(p2) THEN Zero
        ELSE IF Len(p2) = 0 THEN NaN
        ELSE LET v1 == <<p1[1] - p2[1], p1[2] - p2[2]>>
                 v2 == <<p3[1] - p2[1], p3[2] - p2[2]>>
                 dot == Dot(v1, v2)
                 norms_squared == Dot(v1, v1) * Dot(v2, v2)
             IN  IF norms_squared = 0 THEN NaN
                 ELSE ArcCosDegrees(IF dot < 0 THEN -1 ELSE 1,
                                    Rat(dot * dot, norms_squared))

\* math.degrees(math.atan2(y, x)) for y >= 0 and x >= 0 on the grid;
\* atan2(0, 0) is 0.0 and raises nothing.
ATan2Degrees(y, x) ==
    CASE y = 0 -> Whole(0)
      [] y > 0 /\ x = 0 -> Whole(90)
      [] y > 0 /\ x = y -> Whole(45)

\* calculate_spine_lean. An empty list raises IndexError, which the except
\* clause answers with 0.0.
CalculateSpineLean(hip, shoulder) ==
    IF Len(hip) < 2 \/ Len(shoulder) < 2 THEN Zero
    ELSE LET dx == shoulder[1] - hip[1]
             dy == shoulder[2] - hip[2]
             angle_from_horizontal == ATan2Degrees(Abs(dy), Abs(dx))
         IN  RAbs(RSub(Whole(90), angle_from_horizontal))

\* calculate_head_alignment. An empty list raises IndexError and a frame
\* width of 0 raises ZeroDivisionError (the operands are Python floats); the
\* except clause answers both with 1.0.
CalculateHeadAlignment(head, knee, frame_width) ==
    IF Len(head) < 1 \/ Len(knee) < 1 \/ frame_width = 0 THEN Whole(1)
    ELSE LET head_x == head[1] * frame_width
             knee_x == knee[1] * frame_width
         IN  Rat(Abs(head_x - knee_x), frame_width)

\* calculate_foot_angle. An empty toe makes dx = dy = 0; an empty ankle
\* beside a toe raises IndexError, which the except clause answers with 0.0.
CalculateFootAngle(ankle, toe) ==
    IF toe = <<>> THEN ATan2Degrees(0, 0)
    ELSE IF Len(ankle) < 2 THEN Zero
    ELSE LET dx == toe[1] - ankle[1]
             dy == toe[2] - ankle[2]
         IN  ATan2Degrees(Abs(dy), Abs(dx))

\* The joints analyze_biomechanics looks up at lines 164-169, and all of them.
FrontJoints == {"left_shoulder", "left_elbow", "left_wrist", "left_hip",
                "left_knee", "left_ankle"}
RequiredJoints == FrontJoints \cup {"nose"}

\* The record of the except clause, lines 189-194.
FallbackMetrics ==
    [elbow_angle |-> Zero, spine_lean |-> Zero,
     head_alignment |-> Whole(1), foot_angle |-> Zero]

\* A variant of analyze_biomechanics whose except clause fills in only the
\* fields not computed yet (metrics.setdefault) instead of replacing metrics.
AnalyzeBiomechanics_KeepsComputed(pose_points, frame_width) ==
    IF ~(FrontJoints \subseteq DOMAIN pose_points) THEN FallbackMetrics
    ELSE LET elbow_angle == CalculateAngle(pose_points.left_shoulder,
                                           pose_points.left_elbow,
                                           pose_points.left_wrist)
             spine_lean == CalculateSpineLean(pose_points.left_hip,
                                              pose_points.left_shoulder)
         IN  IF "nose" \notin DOMAIN pose_points
             THEN [FallbackMetrics EXCEPT !.elbow_angle = elbow_angle,
                                          !.spine_lean = spine_lean]
             ELSE [elbow_angle |-> elbow_angle,
                   spine_lean |-> spine_lean,
                   head_alignment |-> CalculateHeadAlignment(pose_points.nose,
                                          pose_points.left_knee, frame_width),
                   foot_angle |-> CalculateFootAngle(pose_points.left_ankle,
                                                     pose_points.left_knee)]

\* analyze_biomechanics. A joint missing at lines 164-169 raises KeyError
\* before any field is computed; a missing nose raises it at line 180, after
\* elbow_angle and spine_lean were stored, and the except clause replaces
\* the whole of metrics.
AnalyzeBiomechanics(pose_points, frame_width) ==
    IF ~(FrontJoints \subseteq DOMAIN pose_points) THEN FallbackMetrics
    ELSE LET elbow_angle == CalculateAngle(pose_points.left_shoulder,
                                           pose_points.left_elbow,
                                           pose_points.left_wrist)
             spine_lean == CalculateSpineLean(pose_points.left_hip,
                                              pose_points.left_shoulder)
         IN  IF "nose" \notin DOMAIN pose_points THEN FallbackMetrics
             ELSE [elbow_angle |-> elbow_angle,
                   spine_lean |-> spine_lean,
                   head_alignment |-> CalculateHeadAlignment(pose_points.nose,
                                          pose_points.left_knee, frame_width),
                   foot_angle |-> CalculateFootAngle(pose_points.left_ankle,
                                                     pose_points.left_knee)]

\* ------------------------------------------------------------------ inputs
\* Identifiers uuid.uuid4() can return; a fresh call never repeats one.
JobIds == 1 .. MaxJobs

\* Content types of an upload, as character sequences. None, the absent
\* header, and the empty string are the same empty sequence here: the code
\* treats both alike (both are falsy).
VideoPrefix == <<"v", "i", "d", "e", "o", "/">>
ContentTypes ==
    { None,
      <<"v", "i", "d", "e", "o", "/", "m", "p", "4">>,
      <<"t", "e", "x", "t", "/", "p", "l", "a", "i", "n">>,
      <<"v", "i", "d", "e", "o">> }

\* str.startswith
StartsWith(s, prefix) == Len(s) >= Len(prefix) /\ SubSeq(s, 1, Len(prefix)) = prefix

\* A variant of the test that only asks for a content type to be present.
IsVideoContentType_AnyPresent(content_type) == ~(content_type = None)

\* The test of line 133 passes: a content type is present and starts with video/.
\* An absent content type (None) and the empty string are both falsy.
IsVideoContentType(content_type) ==
    ~(content_type = None) /\ StartsWith(content_type, VideoPrefix)

\* Uploaded file names with the suffix Path(...).suffix finds in them.
Filenames == { [name |-> "drive.MOV", suffix |-> ".MOV"] }
\* str.lower on the suffixes above.
Lower(suffix) == IF suffix = ".MOV" THEN ".mov" ELSE suffix
AllowedExtensions == {".mp4", ".avi", ".mov", ".mkv"}
FileExtension(filename) ==
    IF Lower(filename.suffix) \notin AllowedExtensions THEN ".mp4" ELSE Lower(filename.suffix)
\* OUTPUT_DIR / f"uploaded_{analysis_id}{file_extension}"
UploadPath(analysis_id, filename) ==
    "uploaded_" \o ToString(analysis_id) \o FileExtension(filename)

\* What the bytes of a file are to cv2.VideoCapture: a video it opens, or not.
FileKinds == {"video", "garbage"}

\* video_url values of an analyze-video request (None: field absent).
LocalVideo == "/data/cover_drive.mp4"
VideoUrls == { None, Some(""), Some("https://youtu.be/cover-drive"), Some(LocalVideo) }

\* Per-frame metrics analyze_biomechanics yields for the pose of a frame: a
\* well-placed elbow (excellent band) over an upright spine and a wide foot
\* (both outside the good band).
FrameMetricsSamples ==
    { [elbow_angle |-> Whole(115), spine_lean |-> Whole(5),
       head_alignment |-> Rat(12, 100), foot_angle |-> Whole(60)] }

\* A frame as self.pose.process answers it: without landmarks, or with
\* landmarks and the metrics they give. The estimator is one object shared
\* by all jobs and keeps tracking state between calls
\* (static_image_mode=False), so its answer is not a function of the frame
\* alone; every answer is possible for every frame read.
Frames ==
    [landmarks : {TRUE}, metrics : FrameMetricsSamples]
    \cup {[landmarks |-> FALSE]}

\* str(e) of an exception raised while a frame is converted or processed.
ExtractorErrors == {""}
\* str(e) of an exception insert_one raises.
InsertErrors == {"No servers found yet"}

\* -------------------------------------------------------------------- state
VARIABLES
    analysis_results,   \* server.py:65, analysis_id -> record
    runners,            \* the process_video_analysis tasks added, in order
    videoFiles,         \* path -> kind of the video files on disk
    outputFiles,        \* second of writing -> content of evaluation_<second>.json
    cricket_analyses,   \* documents inserted into db.cricket_analyses
    now,                \* wall clock in whole seconds, as datetime.now() names files
    response,           \* what the request handled by the last step answered
    call                \* a method of the analyzer called on its own: its
                        \* arguments and, once it has returned, its result

vars == << analysis_results, runners, videoFiles, outputFiles,
           cricket_analyses, now, response, call >>

NoResponse == [op |-> "none"]
\* No method of the analyzer is called on its own.
NoCall == [fn |-> "none"]

\* A process_video_analysis invocation as add_task records it, with the
\* locals of the coroutine and of its analyze_video_file call.
NewRunner(analysis_id, video_path, is_uploaded) ==
    [ analysis_id |-> analysis_id,
      video_path |-> video_path,
      is_uploaded |-> is_uploaded,
      pc |-> "scheduled",
      analyzer_calls |-> 0,
      frames |-> <<>>,          \* the frames cap.read() has delivered
      all_metrics |-> <<>>,
      result |-> None,          \* what analyze_video_file returned
      error |-> None ]          \* str(e) of what it raised

Init ==
    /\ analysis_results = << >>
    /\ runners = << >>
    /\ videoFiles = (LocalVideo :> "video")
    /\ outputFiles = << >>
    /\ cricket_analyses = {}
    /\ now = 0
    /\ response = NoResponse
    /\ call = NoCall

\* A variant of the identifier source that hands out the same identifier
\* every time.
FreshId_First == CHOOSE i \in JobIds : \A j \in JobIds : i <= j

\* uuid.uuid4(): an identifier not handed out before.
UsedIds == DOMAIN analysis_results \cup {runners[k].analysis_id : k \in DOMAIN runners}
HasFreshId == JobIds \ UsedIds # {}
FreshId == CHOOSE i \in JobIds \ UsedIds : \A j \in JobIds \ UsedIds : i <= j

\* ----------------------------------------------------------- submit, get
\* datetime.utcnow(): an instant. The instants of the records are not told
\* apart; what the model keeps is whether a field holds one.
UtcNow == "utcnow"

\* The record upload_cricket_video stores (lines 150-158).
UploadRecord(analysis_id, filename) ==
    [ analysis_id |-> analysis_id,
      status |-> "initiated",
      video_source |-> "uploaded",
      filename |-> filename.name,
      created_at |-> UtcNow,
      completed_at |-> None,
      error_message |-> None ]

\* The record start_video_analysis stores (lines 184-191).
UrlRecord(analysis_id, video_url) ==
    [ analysis_id |-> analysis_id,
      status |-> "initiated",
      video_url |-> video_url,
      created_at |-> UtcNow,
      completed_at |-> None,
      error_message |-> None ]

\* A variant of the upload handler that schedules the runner and answers,
\* but stores no record.
UploadCricketVideo_TaskOnly(content_type, filename, kind) ==
    IF ~IsVideoContentType(content_type)
    THEN /\ response' = [ op |-> "upload", status_code |-> 400,
                          content_type |-> content_type,
                          detail |-> "File must be a video" ]
         /\ UNCHANGED << analysis_results, runners, videoFiles, outputFiles,
                         cricket_analyses, now >>
    ELSE /\ HasFreshId
         /\ LET analysis_id == FreshId
                video_path == UploadPath(analysis_id, filename)
            IN  /\ videoFiles' = (video_path :> kind) @@ videoFiles
                /\ runners' = Append(runners, NewRunner(analysis_id, video_path, TRUE))
                /\ response' = [ op |-> "upload", status_code |-> 200,
                                 content_type |-> content_type,
                                 analysis_id |-> analysis_id,
                                 filename |-> filename.name ]
         /\ UNCHANGED << analysis_results, outputFiles, cricket_analyses, now >>

\* POST /upload-video with a file of the given content type, name and bytes.
UploadCricketVideo(content_type, filename, kind) ==
    IF ~IsVideoContentType(content_type)
    THEN /\ response' = [ op |-> "upload", status_code |-> 400,
                          content_type |-> content_type,
                          detail |-> "File must be a video" ]
         /\ UNCHANGED << analysis_results, runners, videoFiles, outputFiles,
                         cricket_analyses, now >>
    ELSE /\ HasFreshId
         /\ LET analysis_id == FreshId
                video_path == UploadPath(analysis_id, filename)
            IN  /\ videoFiles' = (video_path :> kind) @@ videoFiles
                /\ analysis_results' =
                       (analysis_id :> UploadRecord(analysis_id, filename))
                       @@ analysis_results
                /\ runners' = Append(runners, NewRunner(analysis_id, video_path, TRUE))
                /\ response' = [ op |-> "upload", status_code |-> 200,
                                 content_type |-> content_type,
                                 analysis_id |-> analysis_id,
                                 filename |-> filename.name ]
         /\ UNCHANGED << outputFiles, cricket_analyses, now >>

\* The test of line 178 passes: video_url is neither None nor empty.
HasVideoUrl(video_url) == ~(video_url = None) /\ ~(video_url = Some(""))

\* POST /analyze-video with the given video_url.
StartVideoAnalysis(video_url) ==
    IF ~HasVideoUrl(video_url)
    THEN /\ response' = [ op |-> "analyze", status_code |-> 400,
                          video_url |-> video_url,
                          detail |-> "video_url is required" ]
         /\ UNCHANGED << analysis_results, runners, videoFiles, outputFiles,
                         cricket_analyses, now >>
    ELSE /\ HasFreshId
         /\ LET analysis_id == FreshId
            IN  /\ analysis_results' =
                       (analysis_id :> UrlRecord(analysis_id, video_url[1]))
                       @@ analysis_results
                /\ runners' = Append(runners, NewRunner(analysis_id, video_url[1], FALSE))
                /\ response' = [ op |-> "analyze", status_code |-> 200,
                                 video_url |-> video_url,
                                 analysis_id |-> analysis_id,
                                 status |-> "initiated" ]
         /\ UNCHANGED << videoFiles, outputFiles, cricket_analyses, now >>

\* A variant of the get handler that takes the record out of the store
\* (dict.pop) when it answers it.
GetAnalysisResult_Pop(analysis_id) ==
    /\ response' =
           IF analysis_id \notin DOMAIN analysis_results
           THEN [ op |-> "get", status_code |-> 404, analysis_id |-> analysis_id,
                  detail |-> "Analysis not found" ]
           ELSE [ op |-> "get", status_code |-> 200, analysis_id |-> analysis_id,
                  body |-> analysis_results[analysis_id] ]
    /\ analysis_results' =
           [id \in DOMAIN analysis_results \ {analysis_id} |-> analysis_results[id]]
    /\ UNCHANGED << runners, videoFiles, outputFiles, cricket_analyses, now >>

\* GET /analysis/{analysis_id}
GetAnalysisResult(analysis_id) ==
    /\ response' =
           IF analysis_id \notin DOMAIN analysis_results
           THEN [ op |-> "get", status_code |-> 404, analysis_id |-> analysis_id,
                  detail |-> "Analysis not found" ]
           ELSE [ op |-> "get", status_code |-> 200, analysis_id |-> analysis_id,
                  body |-> analysis_results[analysis_id] ]
    /\ UNCHANGED << analysis_results, runners, videoFiles, outputFiles,
                    cricket_analyses, now >>

\* A variant of the list handler that answers only the records of the jobs
\* that have ended.
GetAllAnalyses_EndedOnly ==
    /\ response' =
           [ op |-> "list", status_code |-> 200,
             body |-> [id \in {i \in DOMAIN analysis_results :
                                  analysis_results[i].status \in {"completed", "failed"}}
                         |-> analysis_results[id]] ]
    /\ UNCHANGED << analysis_results, runners, videoFiles, outputFiles,
                    cricket_analyses, now >>

\* GET /analysis: the records in insertion order, which is the order of the
\* identifiers handed out.
GetAllAnalyses ==
    /\ response' = [ op |-> "list", status_code |-> 200, body |-> analysis_results ]
    /\ UNCHANGED << analysis_results, runners, videoFiles, outputFiles,
                    cricket_analyses, now >>

\* ------------------------------------------------------------- the runner
\* A variant of the completing update that writes the status and the
\* timestamp and leaves the result for later.
CompletedUpdate_StatusOnly(result) ==
    [ status |-> "completed", completed_at |-> Some(UtcNow) ]

\* analysis_results[analysis_id].update({...}) of lines 78-86.
CompletedUpdate(result) ==
    [ status |-> "completed",
      scores |-> result.evaluation.scores,
      feedback |-> result.evaluation.feedback,
      metrics_summary |-> result.evaluation.metrics_summary,
      completed_at |-> Some(UtcNow),
      output_files |-> result.output_files,
      video_info |-> result.video_info ]

\* A variant of the failing update that records the error and leaves the
\* status as it is.
FailedUpdate_KeepsStatus(message) ==
    [ error_message |-> Some(message),
      completed_at |-> Some(UtcNow) ]

\* A variant of the failing update that sets no completed_at.
FailedUpdate_NoTimestamp(message) ==
    [ status |-> "failed", error_message |-> Some(message) ]

\* analysis_results[analysis_id].update({...}) of lines 97-101.
FailedUpdate(message) ==
    [ status |-> "failed",
      error_message |-> Some(message),
      completed_at |-> Some(UtcNow) ]

\* The exception analyze_video_file re-raises for an inner exception (line 432).
AnalysisFailed(message) == "Video analysis failed: " \o message

\* Start of process_video_analysis (line 72) up to the hand-over of
\* analyze_video_file to a worker thread (line 75). For an identifier that
\* is not in the store, line 72 raises KeyError, the handler's update at
\* line 97 raises it again and the task dies.
RunnerStart(k) ==
    LET r == runners[k]
    IN  /\ r.pc = "scheduled"
        /\ IF r.analysis_id \in DOMAIN analysis_results
           THEN /\ analysis_results' =
                       [analysis_results EXCEPT ![r.analysis_id] =
                            Update(@, [status |-> "processing"])]
                /\ runners' = [runners EXCEPT ![k].pc = "open",
                                              ![k].analyzer_calls = @ + 1]
           ELSE /\ runners' = [runners EXCEPT ![k].pc = "crashed"]
                /\ UNCHANGED analysis_results
        /\ response' = NoResponse
        /\ UNCHANGED << videoFiles, outputFiles, cricket_analyses, now >>

\* analyze_video_file, lines 356-372: the file is looked up and opened.
AnalyzerOpen(k) ==
    LET r == runners[k]
    IN  /\ r.pc = "open"
        /\ runners' =
               IF r.video_path \notin DOMAIN videoFiles
               THEN [runners EXCEPT ![k].pc = "raised",
                        ![k].error = Some(AnalysisFailed("Video file not found: " \o r.video_path))]
               ELSE IF videoFiles[r.video_path] # "video"
               THEN [runners EXCEPT ![k].pc = "raised",
                        ![k].error = Some(AnalysisFailed("Could not open video file"))]
               ELSE [runners EXCEPT ![k].pc = "frames"]
        /\ response' = NoResponse
        /\ UNCHANGED << analysis_results, videoFiles, outputFiles, cricket_analyses, now >>

\* One turn of the frame loop, lines 375-394, for a frame cap.read() delivers.
AnalyzerFrame(k) ==
    LET r == runners[k]
    IN  /\ r.pc = "frames"
        /\ Len(r.frames) < MaxFrames
        /\ \E frame \in Frames :
              runners' = [runners EXCEPT
                  ![k].frames = Append(@, frame),
                  ![k].all_metrics = IF frame.landmarks THEN Append(@, frame.metrics) ELSE @]
        /\ response' = NoResponse
        /\ UNCHANGED << analysis_results, videoFiles, outputFiles, cricket_analyses, now >>

\* A turn of the frame loop in which the conversion or the pose estimator raises.
AnalyzerFrameRaises(k) ==
    LET r == runners[k]
    IN  /\ r.pc = "frames"
        /\ Len(r.frames) < MaxFrames
        /\ \E message \in ExtractorErrors :
              runners' = [runners EXCEPT ![k].pc = "raised",
                                         ![k].error = Some(AnalysisFailed(message))]
        /\ response' = NoResponse
        /\ UNCHANGED << analysis_results, videoFiles, outputFiles, cricket_analyses, now >>

\* The name line 408 gives the evaluation file: the second it is written in.
EvaluationFile(t) == t

\* What analyze_video_file returns (lines 412-425); the container's frame
\* count and frame rate are left out.
AnalysisResult(evaluation, r, t) ==
    [ evaluation |-> evaluation,
      video_info |-> [ frames_processed |-> Len(r.frames),
                       frames_with_pose |-> Len(r.all_metrics) ],
      output_files |-> [ evaluation_json |-> EvaluationFile(t),
                         input_video |-> r.video_path ] ]

\* cap.read() reports the end of the video: lines 400-428.
AnalyzerFinish(k) ==
    LET r == runners[k]
    IN  /\ r.pc = "frames"
        /\ \E rFoot \in RandomDraws, rSwing \in RandomDraws, rBalance \in RandomDraws :
              LET evaluation == EvaluateTechnique(r.all_metrics, rFoot, rSwing, rBalance)
              IN  /\ outputFiles' = (EvaluationFile(now) :> evaluation) @@ outputFiles
                  /\ runners' = [runners EXCEPT
                         ![k].pc = "returned",
                         ![k].result = Some(AnalysisResult(evaluation, r, now))]
        /\ response' = NoResponse
        /\ UNCHANGED << analysis_results, videoFiles, cricket_analyses, now >>

\* The coroutine resumes with the result: lines 78-86, up to the await of
\* insert_one at line 89.
RunnerComplete(k) ==
    LET r == runners[k]
    IN  /\ r.pc = "returned"
        /\ analysis_results' =
               [analysis_results EXCEPT ![r.analysis_id] =
                    Update(@, CompletedUpdate(r.result[1]))]
        /\ runners' = [runners EXCEPT ![k].pc = "insert"]
        /\ response' = NoResponse
        /\ UNCHANGED << videoFiles, outputFiles, cricket_analyses, now >>

\* The except block, lines 96-109, for an exception whose str() is message:
\* the record is marked failed, and an uploaded file that still exists is
\* removed unless os.remove itself fails.
HandleException(k, message) ==
    LET r == runners[k]
    IN  /\ analysis_results' =
               [analysis_results EXCEPT ![r.analysis_id] =
                    Update(@, FailedUpdate(message))]
        /\ IF r.is_uploaded /\ r.video_path \in DOMAIN videoFiles
           THEN \E removed \in BOOLEAN :
                   videoFiles' =
                       IF removed
                       THEN [p \in DOMAIN videoFiles \ {r.video_path} |-> videoFiles[p]]
                       ELSE videoFiles
           ELSE UNCHANGED videoFiles
        /\ runners' = [runners EXCEPT ![k].pc = "done"]

\* The coroutine resumes with the exception analyze_video_file raised.
RunnerAnalysisRaised(k) ==
    LET r == runners[k]
    IN  /\ r.pc = "raised"
        /\ HandleException(k, r.error[1])
        /\ response' = NoResponse
        /\ UNCHANGED << outputFiles, cricket_analyses, now >>

\* The document of lines 89-94 as insert_one encodes it.
AnalysisDocument(r, rec) ==
    [ analysis_id |-> r.analysis_id,
      video_source |-> IF r.is_uploaded THEN "uploaded" ELSE "url",
      result |-> rec,
      created_at |-> rec.created_at ]

\* insert_one returns.
RunnerInsertReturns(k) ==
    LET r == runners[k]
    IN  /\ r.pc = "insert"
        /\ cricket_analyses' =
               cricket_analyses \cup {AnalysisDocument(r, analysis_results[r.analysis_id])}
        /\ runners' = [runners EXCEPT ![k].pc = "done"]
        /\ response' = NoResponse
        /\ UNCHANGED << analysis_results, videoFiles, outputFiles, now >>

\* insert_one raises (the database is down or refuses the document): the
\* await at line 89 is inside the try block, so the handler of line 96 runs.
RunnerInsertRaises(k) ==
    LET r == runners[k]
    IN  /\ r.pc = "insert"
        /\ \E message \in InsertErrors : HandleException(k, message)
        /\ response' = NoResponse
        /\ UNCHANGED << outputFiles, cricket_analyses, now >>

\* A second passes. The clock is read for the timestamps of the records and
\* for the name of the evaluation file; only the seconds in which an
\* evaluation file was written are told apart, which also keeps the clock
\* below the number of analyses that have ended.
Tick ==
    /\ EvaluationFile(now) \in DOMAIN outputFiles
    /\ now' = now + 1
    /\ response' = NoResponse
    /\ UNCHANGED << analysis_results, runners, videoFiles, outputFiles,
                    cricket_analyses >>

\* The steps of the server; none of them is a call of the last variable.
Next ==
    \/ /\ \E content_type \in ContentTypes, filename \in Filenames, kind \in FileKinds :
             UploadCricketVideo(content_type, filename, kind)
       /\ UNCHANGED call
    \/ (\E video_url \in VideoUrls : StartVideoAnalysis(video_url)) /\ UNCHANGED call
    \/ (\E analysis_id \in 0 .. MaxJobs : GetAnalysisResult(analysis_id)) /\ UNCHANGED call
    \/ GetAllAnalyses /\ UNCHANGED call
    \/ (\E k \in DOMAIN runners : RunnerStart(k)) /\ UNCHANGED call
    \/ (\E k \in DOMAIN runners : AnalyzerOpen(k)) /\ UNCHANGED call
    \/ (\E k \in DOMAIN runners : AnalyzerFrame(k)) /\ UNCHANGED call
    \/ (\E k \in DOMAIN runners : AnalyzerFrameRaises(k)) /\ UNCHANGED call
    \/ (\E k \in DOMAIN runners : AnalyzerFinish(k)) /\ UNCHANGED call
    \/ (\E k \in DOMAIN runners : RunnerComplete(k)) /\ UNCHANGED call
    \/ (\E k \in DOMAIN runners : RunnerAnalysisRaised(k)) /\ UNCHANGED call
    \/ (\E k \in DOMAIN runners : RunnerInsertReturns(k)) /\ UNCHANGED call
    \/ (\E k \in DOMAIN runners : RunnerInsertRaises(k)) /\ UNCHANGED call
    \/ Tick /\ UNCHANGED call

Spec == Init /\ [][Next]_vars

\* A step of the coroutine process_video_analysis of runner k on the event
\* loop: its start, or its resumption with the outcome of an await.
CoroutineStep(k) ==
    /\ k \in DOMAIN runners
    /\ \/ RunnerStart(k)
       \/ RunnerComplete(k)
       \/ RunnerAnalysisRaised(k)
       \/ RunnerInsertReturns(k)
       \/ RunnerInsertRaises(k)
    /\ UNCHANGED call

\* A step of analyze_video_file in the worker thread of asyncio.to_thread.
AnalyzerStep(k) ==
    /\ k \in DOMAIN runners
    /\ \/ AnalyzerOpen(k)
       \/ AnalyzerFrame(k)
       \/ AnalyzerFrameRaises(k)
       \/ AnalyzerFinish(k)
    /\ UNCHANGED call

\* analyze_video_file of runner k is running: AnalyzerStep(k) is enabled
\* exactly then, since the file can be looked up and the end of the video
\* can be reported whatever the rest of the state is.
InAnalyzer(k) == k \in DOMAIN runners /\ runners[k].pc \in {"open", "frames"}

\* The thread that runs analyze_video_file keeps running: weak fairness of
\* AnalyzerStep(k), with the enabling condition written as InAnalyzer(k).
\* Every step of AnalyzerStep(k) changes runner k, which is stated first so
\* that the steps of the handlers and of the other runners are told apart
\* from it at once.
ThreadRuns(k) ==
    \/ []<>~InAnalyzer(k)
    \/ []<><<InAnalyzer(k) /\ runners'[k] # runners[k] /\ AnalyzerStep(k)>>_vars

\* The server under its scheduling: the event loop runs every task that
\* background_tasks.add_task has queued once the response is sent and
\* resumes a coroutine whose await has an outcome; the worker thread keeps
\* running, and a video file has an end. The handlers run only when a
\* client calls.
FairSpec ==
    /\ Init
    /\ [][Next]_vars
    /\ \A k \in 1 .. MaxJobs : WF_vars(CoroutineStep(k)) /\ ThreadRuns(k)

\* ------------------------------------------- the analyzer's methods alone
\* The state of the server, which a method called on its own leaves alone.
server == << analysis_results, runners, videoFiles, outputFiles,
             cricket_analyses, now, response >>

\* Per-frame metrics evaluate_technique is called with: the values of the
\* test, the fallback of analyze_biomechanics (0, 0, 1.0, 0), a frame whose
\* elbow angle is nan beside values far outside the bands, a frame on the
\* bounds of the good bands with the head over the knee, and a dictionary
\* with two of the four fields.
MetricsSamples ==
    { [elbow_angle |-> Whole(115), spine_lean |-> Whole(20),
       head_alignment |-> Rat(15, 100), foot_angle |-> Whole(30)],
      [elbow_angle |-> Zero, spine_lean |-> Zero,
       head_alignment |-> Whole(1), foot_angle |-> Zero],
      [elbow_angle |-> NaN, spine_lean |-> Whole(90),
       head_alignment |-> Rat(1, 2), foot_angle |-> Whole(90)],
      [elbow_angle |-> Whole(90), spine_lean |-> Whole(10),
       head_alignment |-> Zero, foot_angle |-> Whole(45)],
      [elbow_angle |-> Whole(180), head_alignment |-> Rat(3, 2)] }

\* The lists of at most MaxMetrics such dictionaries.
MetricsSequences == UNION { [1 .. n -> MetricsSamples] : n \in 0 .. MaxMetrics }

\* Values _score_metric is called with: 0, the bounds of every band and
\* their neighbours, values far outside, a negative and two fractions.
ScoreValues ==
    { Whole(n) : n \in {-5, 0, 1, 9, 10, 14, 15, 20, 25, 26, 30, 31, 35, 36, 45, 46,
                        89, 90, 104, 105, 125, 126, 135, 136, 180, 400} }
    \cup { Rat(1, 1000), Rat(51, 2), Rat(301, 10) }
\* The bands of self.thresholds that are ranges.
Bands == { Thresholds[m] : m \in DOMAIN Thresholds }

\* Poses extract_pose_landmarks yields: a batsman with the front elbow
\* bent at a right angle under an upright spine, and a pose whose landmarks
\* all coincide.
FullPoses ==
    { [nose |-> <<0, 0, 0>>, left_shoulder |-> <<0, 0, 0>>, left_elbow |-> <<0, 1, 0>>,
       left_wrist |-> <<1, 1, 0>>, left_hip |-> <<0, 1, 0>>, left_knee |-> <<1, 1, 0>>,
       left_ankle |-> <<0, 0, 0>>, right_shoulder |-> <<1, 0, 0>>],
      [nose |-> <<0, 0, 0>>, left_shoulder |-> <<0, 0, 0>>, left_elbow |-> <<0, 0, 0>>,
       left_wrist |-> <<0, 0, 0>>, left_hip |-> <<0, 0, 0>>, left_knee |-> <<0, 0, 0>>,
       left_ankle |-> <<0, 0, 0>>, right_shoulder |-> <<0, 0, 0>>] }
\* A pose without the given joints.
Without(pose, joints) == [j \in DOMAIN pose \ joints |-> pose[j]]
\* The poses analyze_biomechanics is called with: complete, without one
\* joint, and empty.
Poses ==
    FullPoses
    \cup { Without(pose, {j}) : pose \in FullPoses, j \in RequiredJoints \cup {"right_shoulder"} }
    \cup { << >> }
\* Frame widths cap.get reports.
FrameWidths == {0, 640}

\* The frames of a video analyze_video_file is run on alone: the frames of
\* the server's videos and a frame whose pose gives the fallback metrics.
VideoFrames == Frames \cup [landmarks : {TRUE}, metrics : {FallbackMetrics}]
\* The videos of at most MaxVideo frames.
Videos == UNION { [1 .. n -> VideoFrames] : n \in 0 .. MaxVideo }

\* The locals of analyze_video_file after the video was opened (lines
\* 360-372), with what the run has done so far: the frames handed to
\* self.pose.process and the arguments of its evaluate_technique calls.
VideoRuns ==
    [fn : {"analyze_video_file"}, video : Videos, position : {0}, processed : {<<>>},
     all_metrics : {<<>>}, frames_processed : {0}, evaluations : {<<>>}, result : {None}]

\* The calls made: a method, its arguments, and no result yet.
Calls ==
    [fn : {"evaluate_technique"}, all_metrics : MetricsSequences, result : {None}]
    \cup [fn : {"_score_metric"}, value : ScoreValues, thresholds : Bands, result : {None}]
    \cup [fn : {"calculate_angle"}, point1 : Points, point2 : Points, point3 : Points,
          result : {None}]
    \cup [fn : {"calculate_spine_lean"}, hip : Points, shoulder : Points, result : {None}]
    \cup [fn : {"analyze_biomechanics"}, pose_points : Poses, frame_width : FrameWidths,
          result : {None}]
    \cup VideoRuns

CallInit ==
    /\ analysis_results = << >>
    /\ runners = << >>
    /\ videoFiles = (LocalVideo :> "video")
    /\ outputFiles = << >>
    /\ cricket_analyses = {}
    /\ now = 0
    /\ response = NoResponse
    /\ call \in Calls

\* evaluate_technique returns.
EvaluateTechniqueReturns ==
    /\ call.fn = "evaluate_technique"
    /\ call.result = None
    /\ \E rFoot \in RandomDraws, rSwing \in RandomDraws, rBalance \in RandomDraws :
          call' = [call EXCEPT !.result =
                       Some(EvaluateTechnique(call.all_metrics, rFoot, rSwing, rBalance))]
    /\ UNCHANGED server

\* _score_metric returns.
ScoreMetricReturns ==
    /\ call.fn = "_score_metric"
    /\ call.result = None
    /\ \E r \in RandomDraws :
          call' = [call EXCEPT !.result = Some(ScoreMetric(call.value, call.thresholds, r))]
    /\ UNCHANGED server

\* calculate_angle returns.
CalculateAngleReturns ==
    /\ call.fn = "calculate_angle"
    /\ call.result = None
    /\ call' = [call EXCEPT !.result =
                    Some(CalculateAngle(call.point1, call.point2, call.point3))]
    /\ UNCHANGED server

\* calculate_spine_lean returns.
CalculateSpineLeanReturns ==
    /\ call.fn = "calculate_spine_lean"
    /\ call.result = None
    /\ call' = [call EXCEPT !.result = Some(CalculateSpineLean(call.hip, call.shoulder))]
    /\ UNCHANGED server

\* analyze_biomechanics returns.
AnalyzeBiomechanicsReturns ==
    /\ call.fn = "analyze_biomechanics"
    /\ call.result = None
    /\ call' = [call EXCEPT !.result =
                    Some(AnalyzeBiomechanics(call.pose_points, call.frame_width))]
    /\ UNCHANGED server

\* A variant of lines 385-392 that appends the fallback metrics for a frame
\* without landmarks.
MetricsAfterFrame_FallbackForNoPose(all_metrics, frame) ==
    IF frame.landmarks THEN Append(all_metrics, frame.metrics)
    ELSE Append(all_metrics, FallbackMetrics)

\* Lines 385-392: all_metrics after a frame was processed.
MetricsAfterFrame(all_metrics, frame) ==
    IF frame.landmarks THEN Append(all_metrics, frame.metrics) ELSE all_metrics

\* One turn of the loop of analyze_video_file, lines 375-394: cap.read()
\* delivers the next frame of the video.
VideoFrameProcessed ==
    /\ call.fn = "analyze_video_file"
    /\ call.result = None
    /\ call.position < Len(call.video)
    /\ LET frame == call.video[call.position + 1]
       IN  call' = [call EXCEPT !.position = @ + 1,
                                !.processed = Append(@, frame),
                                !.all_metrics = MetricsAfterFrame(@, frame),
                                !.frames_processed = @ + 1]
    /\ UNCHANGED server

\* A turn of the loop in which the conversion or the pose estimator raises:
\* lines 430-432 re-raise.
VideoFrameRaises ==
    /\ call.fn = "analyze_video_file"
    /\ call.result = None
    /\ call.position < Len(call.video)
    /\ \E message \in ExtractorErrors :
          call' = [call EXCEPT !.position = @ + 1,
                               !.result = Some([raised |-> AnalysisFailed(message)])]
    /\ UNCHANGED server

\* cap.read() reports the end of the video: lines 377-428.
VideoEnds ==
    /\ call.fn = "analyze_video_file"
    /\ call.result = None
    /\ call.position = Len(call.video)
    /\ \E rFoot \in RandomDraws, rSwing \in RandomDraws, rBalance \in RandomDraws :
          LET evaluation == EvaluateTechnique(call.all_metrics, rFoot, rSwing, rBalance)
          IN  /\ outputFiles' = (EvaluationFile(now) :> evaluation) @@ outputFiles
              /\ call' = [call EXCEPT
                     !.evaluations = Append(@, call.all_metrics),
                     !.result = Some([ evaluation |-> evaluation,
                                       video_info |->
                                           [ frames_processed |-> call.frames_processed,
                                             frames_with_pose |-> Len(call.all_metrics) ],
                                       output_files |->
                                           [ evaluation_json |-> EvaluationFile(now) ] ])]
    /\ UNCHANGED << analysis_results, runners, videoFiles, cricket_analyses, now, response >>

CallNext ==
    \/ EvaluateTechniqueReturns
    \/ ScoreMetricReturns
    \/ CalculateAngleReturns
    \/ CalculateSpineLeanReturns
    \/ AnalyzeBiomechanicsReturns
    \/ VideoFrameProcessed
    \/ VideoFrameRaises
    \/ VideoEnds

CallSpec == CallInit /\ [][CallNext]_vars

\* ------------------------------------------------------------ vocabulary
Terminal == {"completed", "failed"}
ResultFields == {"scores", "feedback", "metrics_summary", "completed_at"}
RunnerIds == {runners[k].analysis_id : k \in DOMAIN runners}
\* The record of the job runner k was scheduled for.
RecordOf(k) == analysis_results[runners[k].analysis_id]

\* A record as a poller receives it: if it says completed, the result is in it.
CarriesResult(rec) ==
    rec.status = "completed" =>
        /\ ResultFields \subseteq DOMAIN rec
        /\ rec.completed_at # None
        /\ DOMAIN rec.scores = Categories
        /\ DOMAIN rec.feedback = Categories
        /\ DOMAIN rec.metrics_summary = MetricNames

\* --------------------------------------------------------------------- C1
\* C1: once a record is completed or failed, no step changes its status or
\* any other of its fields.
C1_TerminalRecordIsImmutable ==
    [][ \A id \in DOMAIN analysis_results :
            analysis_results[id].status \in Terminal
                => analysis_results'[id] = analysis_results[id] ]_vars

\* --------------------------------------------------------------------- C2
\* C2: whatever get_analysis_result or get_all_analyses answers, and whatever
\* the store holds, a record with status completed carries scores, feedback,
\* metrics_summary and completed_at.
C2_CompletedCarriesResult ==
    /\ \A id \in DOMAIN analysis_results : CarriesResult(analysis_results[id])
    /\ response.op = "get" /\ response.status_code = 200 => CarriesResult(response.body)
    /\ response.op = "list" =>
           \A id \in DOMAIN response.body : CarriesResult(response.body[id])

\* A poll has just answered a completed record.
C2_Witness ==
    /\ response.op = "get"
    /\ response.status_code = 200
    /\ response.body.status = "completed"
    /\ response.body.scores.swing_control >= 9

\* --------------------------------------------------------------------- C3
\* C3: after analyze_video_file has returned for a job and the record was
\* updated, the record stays completed with that result and an uploaded
\* input file stays on disk, whatever insert_one does.
C3_SinkIsOptional ==
    \A k \in DOMAIN runners :
        runners[k].pc \in {"insert", "done"} /\ runners[k].result # None =>
            /\ RecordOf(k).status = "completed"
            /\ RecordOf(k).scores = runners[k].result[1].evaluation.scores
            /\ runners[k].is_uploaded => runners[k].video_path \in DOMAIN videoFiles

\* --------------------------------------------------------------------- C4
\* C4: when analyze_video_file raised for a job and the runner has ended,
\* the record is failed with a non-empty error_message and a completed_at,
\* and no runner died of an exception.
C4_AnalyzerFailureEndsFailed ==
    \A k \in DOMAIN runners :
        /\ runners[k].pc # "crashed"
        /\ runners[k].error # None /\ runners[k].pc = "done" =>
               /\ RecordOf(k).status = "failed"
               /\ RecordOf(k).error_message # None
               /\ RecordOf(k).error_message[1] # ""
               /\ RecordOf(k).completed_at # None

\* A runner has ended after the pose estimator raised with an empty message.
C4_Witness ==
    \E k \in DOMAIN runners :
        /\ runners[k].pc = "done"
        /\ runners[k].error = Some(AnalysisFailed(""))
        /\ RecordOf(k).status = "failed"

\* --------------------------------------------------------------------- C5
\* C5: a job whose video opened, whose frame loop ended and in which no
\* frame yielded landmarks ends completed with the default evaluation.
C5_NoPoseEndsCompleted ==
    \A k \in DOMAIN runners :
        runners[k].pc = "done" /\ runners[k].result # None /\ runners[k].all_metrics = <<>> =>
            /\ RecordOf(k).status = "completed"
            /\ RecordOf(k).scores = DefaultEvaluation.scores
            /\ RecordOf(k).feedback = DefaultEvaluation.feedback
            /\ RecordOf(k).metrics_summary = DefaultEvaluation.metrics_summary

\* --------------------------------------------------------------------- C6
\* C6: every scheduled runner finds its identifier in the store, and until
\* it takes its first step the record is initiated with completed_at and
\* error_message null; a submit that answers 200 names a stored identifier.
C6_SubmitStoresBeforeRunner ==
    /\ \A k \in DOMAIN runners :
           /\ runners[k].analysis_id \in DOMAIN analysis_results
           /\ runners[k].pc # "crashed"
           /\ runners[k].pc = "scheduled" =>
                  /\ RecordOf(k).status = "initiated"
                  /\ RecordOf(k).completed_at = None
                  /\ RecordOf(k).error_message = None
    /\ response.op \in {"upload", "analyze"} /\ response.status_code = 200 =>
           /\ response.analysis_id \in DOMAIN analysis_results
           /\ response.analysis_id \in RunnerIds

\* An upload has just been accepted and its runner has not started.
C6_Witness ==
    /\ response.op = "upload"
    /\ response.status_code = 200
    /\ \E k \in DOMAIN runners :
          /\ runners[k].analysis_id = response.analysis_id
          /\ runners[k].pc = "scheduled"
          /\ runners[k].is_uploaded

\* --------------------------------------------------------------------- C7
\* The content type is missing or does not start with video/.
NotVideo(content_type) ==
    \/ content_type = <<>>
    \/ Len(content_type) < 6
    \/ \E i \in 1 .. 6 : content_type[i] # <<"v", "i", "d", "e", "o", "/">>[i]

\* C7: an upload whose content type is missing or does not start with
\* video/, and an analyze-video request without a video_url, answer 400 and
\* leave the store, the scheduled runners and the files as they were.
C7_RejectedSubmitChangesNothing ==
    [][ /\ \A content_type \in ContentTypes, filename \in Filenames, kind \in FileKinds :
               NotVideo(content_type) /\ UploadCricketVideo(content_type, filename, kind)
                   => /\ response'.status_code = 400
                      /\ UNCHANGED << analysis_results, runners, videoFiles >>
        /\ \A video_url \in {None, Some("")} :
               StartVideoAnalysis(video_url)
                   => /\ response'.status_code = 400
                      /\ UNCHANGED << analysis_results, runners, videoFiles >> ]_vars

\* An upload has just been rejected while a job exists.
C7_Witness ==
    /\ response.op = "upload"
    /\ response.status_code = 400
    /\ analysis_results # << >>

\* --------------------------------------------------------------------- C8
\* The runners scheduled for an identifier.
RunnersOf(id) == {k \in DOMAIN runners : runners[k].analysis_id = id}

\* C8: every stored identifier has exactly one scheduled runner and every
\* scheduled runner a stored identifier of its own; a runner calls the
\* analyzer at most once; a step that changes a stored record is a step of
\* the one runner scheduled for it and of no other runner, so neither another
\* job's runner nor a submit writes it.
C8_OneRunnerOneWriter ==
    /\ [](/\ \A id \in DOMAIN analysis_results : Cardinality(RunnersOf(id)) = 1
          /\ \A k \in DOMAIN runners : /\ runners[k].analyzer_calls <= 1
                                       /\ Cardinality(RunnersOf(runners[k].analysis_id)) = 1)
    /\ [][ \A id \in DOMAIN analysis_results :
               /\ id \in DOMAIN analysis_results'
               /\ analysis_results'[id] # analysis_results[id] =>
                      \E k \in DOMAIN runners :
                          /\ runners[k].analysis_id = id
                          /\ runners'[k].pc # runners[k].pc
                          /\ \A other \in DOMAIN runners \ {k} :
                                 runners'[other] = runners[other] ]_vars

\* Two jobs exist, both runners have ended, one of them after its analyzer raised.
C8_Witness ==
    /\ Len(runners) = 2
    /\ \A k \in DOMAIN runners : runners[k].pc = "done" /\ runners[k].analyzer_calls = 1
    /\ \E k \in DOMAIN runners : runners[k].error # None
    /\ \E k \in DOMAIN runners : RecordOf(k).status = "completed"

\* --------------------------------------------------------------------- C9
\* The frame loop of runner k is running.
InFrameLoop(k) == runners[k].pc = "frames"

\* C9: both get handlers can be served in every reachable state, they leave
\* the store as it is, and get_analysis_result answers 404 exactly for the
\* identifiers no successful submit has returned.
C9_GetIsReadOnlyAndExact ==
    /\ [](/\ \A id \in 0 .. MaxJobs : ENABLED GetAnalysisResult(id)
          /\ ENABLED GetAllAnalyses
          /\ response.op = "get" =>
                 (response.status_code = 404 <=> response.analysis_id \notin RunnerIds))
    /\ [][ /\ \A id \in 0 .. MaxJobs :
                  GetAnalysisResult(id) => analysis_results' = analysis_results
           /\ GetAllAnalyses => analysis_results' = analysis_results
           /\ response'.op \in {"get", "list"} => analysis_results' = analysis_results ]_vars

\* A get has just answered the record of a job whose frame loop is running.
C9_Witness ==
    /\ response.op = "get"
    /\ response.status_code = 200
    /\ response.body.status = "processing"
    /\ \E k \in DOMAIN runners :
          /\ runners[k].analysis_id = response.analysis_id
          /\ InFrameLoop(k)
          /\ Len(runners[k].frames) > 0

\* -------------------------------------------------------------------- C10
\* C10: the evaluation file the result of a job names holds the evaluation
\* of that job, whatever the other jobs do.
C10_JobsAreIndependent ==
    \A k \in DOMAIN runners :
        runners[k].result # None =>
            LET result == runners[k].result[1]
            IN  outputFiles[result.output_files.evaluation_json] = result.evaluation

\* -------------------------------------------------------------------- C11
\* C11: a step that removes a file from the disk is the step in which the
\* runner of an uploaded job marks that job failed, the file is the input
\* file of that job, and the analysis of that job did not succeed; the file
\* of a job submitted by reference is never removed.
C11_DeletesOnlyInputOfFailedUpload ==
    [][ \A path \in DOMAIN videoFiles :
            path \notin DOMAIN videoFiles' =>
                \E k \in DOMAIN runners :
                    /\ runners[k].is_uploaded
                    /\ runners[k].video_path = path
                    /\ runners[k].pc # "done"
                    /\ runners'[k].pc = "done"
                    /\ analysis_results'[runners[k].analysis_id].status = "failed"
                    /\ runners[k].result = None ]_vars

\* -------------------------------------------------------------------- C12
\* The fields a client requires of a completed record.
RequiredFields == {"analysis_id", "status", "video_url", "scores", "feedback"}

\* C12: every record with status completed has the fields analysis_id,
\* status, video_url, scores and feedback, for uploads as for references.
C12_CompletedHasRequiredFields ==
    \A id \in DOMAIN analysis_results :
        analysis_results[id].status = "completed" =>
            RequiredFields \subseteq DOMAIN analysis_results[id]

\* ------------------------------------------- vocabulary of the evaluation
\* evaluate_technique has returned.
Evaluated == call.fn = "evaluate_technique" /\ call.result # None
\* The five categories of an evaluation and the four fields of a frame.
FiveCategories == {"footwork", "head_position", "swing_control", "balance", "follow_through"}
FourFields == {"elbow_angle", "spine_lean", "head_alignment", "foot_angle"}
\* The four scores the follow-through score is derived from.
FourScores(scores) ==
    {scores.footwork, scores.head_position, scores.swing_control, scores.balance}

\* -------------------------------------------------------------------- C13
\* C13: whatever metrics sequence evaluate_technique is given, its scores and
\* its feedback have exactly the five categories as keys, every score is an
\* integer from 1 to 10 and every feedback list has at least one entry.
C13_EvaluationIsWellFormed ==
    Evaluated =>
        LET evaluation == call.result[1]
        IN  /\ DOMAIN evaluation.scores = FiveCategories
            /\ DOMAIN evaluation.feedback = FiveCategories
            /\ \A c \in FiveCategories :
                   /\ evaluation.scores[c] \in 1 .. 10
                   /\ Len(evaluation.feedback[c]) >= 1

\* An evaluation of frames whose head alignment is 1.0 or more and whose
\* foot angle is 0: the clamps give the lowest scores.
C13_Witness ==
    /\ Evaluated
    /\ call.all_metrics # <<>>
    /\ \A i \in DOMAIN call.all_metrics :
           /\ call.all_metrics[i].head_alignment[1] >= call.all_metrics[i].head_alignment[2]
           /\ "foot_angle" \in DOMAIN call.all_metrics[i] => call.all_metrics[i].foot_angle = Zero
    /\ call.result[1].scores.head_position = 1
    /\ call.result[1].scores.footwork = 1

\* -------------------------------------------------------------------- C14
\* The value n/d lies in the range, bounds included.
InRange(n, d, range) == range[1] * d <= n /\ n <= range[2] * d
\* floor(|n/d - (lo + hi)/2| / 10)
TensFromCentre(n, d, range) ==
    LET twice == 2 * n - (range[1] + range[2]) * d
    IN  (IF twice < 0 THEN -twice ELSE twice) \div (20 * d)

\* C14: _score_metric returns 1 for the value 0; otherwise 9 or 10 for a
\* value in the excellent range, bounds included; otherwise 6, 7 or 8 for a
\* value in the good range, bounds included; otherwise the larger of 1 and
\* 6 - floor(|value - midpoint of the excellent range| / 10), which is 1
\* from a distance of 50 on.
C14_ScoreMetricFollowsBands ==
    call.fn = "_score_metric" /\ call.result # None =>
        LET n == call.value[1]
            d == call.value[2]
            excellent == call.thresholds.excellent
            good == call.thresholds.good
            score == call.result[1]
            tens == TensFromCentre(n, d, excellent)
        IN  IF n = 0 THEN score = 1
            ELSE IF InRange(n, d, excellent) THEN score \in {9, 10}
            ELSE IF InRange(n, d, good) THEN score \in {6, 7, 8}
            ELSE /\ score = (IF 6 - tens > 1 THEN 6 - tens ELSE 1)
                 /\ tens >= 5 => score = 1

\* _score_metric has answered 10 for a value on a bound of the excellent range.
C14_Witness ==
    /\ call.fn = "_score_metric"
    /\ call.result = Some(10)
    /\ \/ call.value = Whole(call.thresholds.excellent[1])
       \/ call.value = Whole(call.thresholds.excellent[2])

\* -------------------------------------------------------------------- C15
\* Aggregate head alignments the head score is compared over.
HeadAlignments == { Rat(k, 20) : k \in 0 .. 30 }

\* score is x = 10 - 10 * n/d, clamped to 1..10 and rounded to the nearest
\* integer, a tie going to the even one.
IsRoundedClampedHead(score, n, d) ==
    LET x == 10 * d - 10 * n               \* x * d
        clamped == IF x < d THEN d ELSE IF x > 10 * d THEN 10 * d ELSE x
        off == 2 * (clamped - score * d)   \* 2 * d * (clamped value - score)
    IN  /\ score \in 1 .. 10
        /\ -d <= off /\ off <= d
        /\ (off = d \/ off = -d) => score % 2 = 0

\* C15: for a non-empty metrics sequence the head_position score is
\* round(clamp(10 - 10 * aggregate head_alignment, 1, 10)): 10 for the
\* aggregate 0, 1 for 1.0, 5 for 0.5, and no larger aggregate has a larger
\* score.
C15_HeadScoreIsLinear ==
    Evaluated /\ call.all_metrics # <<>> =>
        LET a == call.result[1].metrics_summary.head_alignment
            score == call.result[1].scores.head_position
        IN  /\ IsRoundedClampedHead(score, a[1], a[2])
            /\ a = Zero => score = 10
            /\ a = Whole(1) => score = 1
            /\ a = Rat(1, 2) => score = 5
            /\ \A b \in HeadAlignments :
                   /\ RLeq(a, b) => HeadScore(b) <= score
                   /\ RLeq(b, a) => HeadScore(b) >= score

\* An evaluation whose aggregate head alignment is 0.5, scored 5.
C15_Witness ==
    /\ Evaluated
    /\ call.all_metrics # <<>>
    /\ call.result[1].metrics_summary.head_alignment = Rat(1, 2)
    /\ call.result[1].scores.head_position = 5

\* -------------------------------------------------------------------- C16
\* C16: for a non-empty metrics sequence the follow_through score is the
\* mean of the footwork, head_position, swing_control and balance scores of
\* the same evaluation, rounded to the nearest integer with a tie going to
\* the even one, and lies between the smallest and the largest of the four.
C16_FollowThroughIsRoundedMean ==
    Evaluated /\ call.all_metrics # <<>> =>
        LET scores == call.result[1].scores
            sum == scores.footwork + scores.head_position
                   + scores.swing_control + scores.balance
            off == 2 * (sum - 4 * scores.follow_through)
        IN  /\ -4 <= off /\ off <= 4
            /\ (off = 4 \/ off = -4) => scores.follow_through % 2 = 0
            /\ \E low \in FourScores(scores) : low <= scores.follow_through
            /\ \E high \in FourScores(scores) : scores.follow_through <= high

\* An evaluation whose four scores differ and whose mean ends in .5.
C16_Witness ==
    /\ Evaluated
    /\ call.all_metrics # <<>>
    /\ LET scores == call.result[1].scores
       IN  /\ Cardinality(FourScores(scores)) >= 3
           /\ (scores.footwork + scores.head_position
                + scores.swing_control + scores.balance) % 4 = 2

\* -------------------------------------------------------------------- C17
\* C17: evaluate_technique of the empty sequence returns scores of 5 in all
\* five categories (the banded scorer would give 1 for the value 0), the
\* incomplete-analysis message alone as every feedback, and 0 in all four
\* fields of metrics_summary.
C17_EmptyGivesDefault ==
    Evaluated /\ call.all_metrics = <<>> =>
        call.result[1] =
            [scores |-> [c \in FiveCategories |-> 5],
             feedback |-> [c \in FiveCategories |->
                 <<"Analysis incomplete - please ensure clear video quality">>],
             metrics_summary |-> [f \in FourFields |-> <<0, 1>>]]

\* evaluate_technique has returned for the empty sequence.
C17_Witness ==
    /\ Evaluated
    /\ call.all_metrics = <<>>
    /\ call.result[1].scores.balance = 5

\* -------------------------------------------------------------------- C18
\* The frames whose value of the field is strictly greater than 0; a frame
\* without the field counts as 0, and nan is not greater than 0.
PositiveFrames(all_metrics, f) ==
    { i \in DOMAIN all_metrics :
        f \in DOMAIN all_metrics[i] /\ all_metrics[i][f][1] > 0 }

\* The sum of 100 times the value of the field over the given frames; the
\* values have denominators that divide 100.
RECURSIVE HundredfoldSum(_, _, _)
HundredfoldSum(all_metrics, f, frames) ==
    IF frames = {} THEN 0
    ELSE LET i == CHOOSE j \in frames : TRUE
         IN  (all_metrics[i][f][1] * 100) \div all_metrics[i][f][2]
             + HundredfoldSum(all_metrics, f, frames \ {i})

\* The sequence with the frames in the order p gives.
Reordered(all_metrics, p) == [i \in DOMAIN all_metrics |-> all_metrics[p[i]]]
FrameOrders(n) == { p \in [1 .. n -> 1 .. n] : \A i, j \in 1 .. n : p[i] = p[j] => i = j }

Degenerate(point1, point2, point3) ==
    /\ Len(point1) = 3 /\ Len(point2) = 3 /\ Len(point3) = 3
    /\ point1 = point2 \/ point3 = point2 \/ point1 = point3

\* C19: calculate_angle returns a finite number for every three landmarks,
\* and 0.0 when point1 or point3 equals point2 or point1 equals point3.
C19_AngleIsFiniteAndZeroWhenDegenerate ==
    /\ call.fn = "calculate_angle"
    /\ call.result # None
    /\ Len(call.point1) = 3 /\ Len(call.point2) = 3 /\ Len(call.point3) = 3
    => /\ IsFinite(call.result[1])
       /\ Degenerate(call.point1, call.point2, call.point3) => call.result[1] = <<0, 1>>

\* -------------------------------------------------------------------- C20
\* C20: calculate_spine_lean returns a value from 0 to 90 for a hip and a
\* shoulder at different positions and 0.0 for a hip and a shoulder at the
\* same position.
C20_SpineLeanInRangeAndZeroWhenEqual ==
    /\ call.fn = "calculate_spine_lean"
    /\ call.result # None
    /\ Len(call.hip) = 3 /\ Len(call.shoulder) = 3
    => LET lean == call.result[1]
       IN  IF call.hip = call.shoulder THEN lean = <<0, 1>>
           ELSE /\ lean[2] > 0
                /\ 0 <= lean[1] /\ lean[1] <= 90 * lean[2]

\* -------------------------------------------------------------------- C21
\* C21: analyze_biomechanics returns, for every pose and frame width, a record
\* with exactly the four fields; when the nose or one of the left shoulder,
\* elbow, wrist, hip, knee and ankle is missing, the record is elbow_angle 0,
\* spine_lean 0, head_alignment 1.0, foot_angle 0.
C21_BiomechanicsIsTotalWithDefaults ==
    call.fn = "analyze_biomechanics" =>
        /\ call.result = None => ENABLED AnalyzeBiomechanicsReturns
        /\ call.result # None =>
               LET metrics == call.result[1]
                   joints == {"nose", "left_shoulder", "left_elbow", "left_wrist",
                              "left_hip", "left_knee", "left_ankle"}
               IN  /\ DOMAIN metrics = FourFields
                   /\ ~(joints \subseteq DOMAIN call.pose_points) =>
                          metrics = [elbow_angle |-> <<0, 1>>, spine_lean |-> <<0, 1>>,
                                     head_alignment |-> <<1, 1>>, foot_angle |-> <<0, 1>>]

\* analyze_biomechanics has returned the defaults for a pose that lacks only
\* the nose and whose elbow is bent.
C21_Witness ==
    /\ call.fn = "analyze_biomechanics"
    /\ call.result # None
    /\ DOMAIN call.pose_points \cup {"nose"} = RequiredJoints \cup {"right_shoulder"}
    /\ "nose" \notin DOMAIN call.pose_points
    /\ call.pose_points.left_elbow # call.pose_points.left_shoulder
    /\ call.result[1].elbow_angle = Zero
    /\ call.result[1].head_alignment = Whole(1)

\* -------------------------------------------------------------------- C22
\* The frames with landmarks among the first i of the sequence.
WithLandmarks(frames, i) == { j \in 1 .. i : frames[j].landmarks }
\* analyze_video_file has returned a result.
VideoReturned ==
    /\ call.fn = "analyze_video_file"
    /\ call.result # None
    /\ "evaluation" \in DOMAIN call.result[1]

\* C22: in a run of analyze_video_file the frames processed are the first
\* frames of the video, each once and in the order of the video; the metrics
\* sequence has one record for each processed frame with landmarks, in their
\* order, and none for the others; evaluate_technique is called at most once,
\* not before the last frame was processed, and exactly once, with the whole
\* metrics sequence, when the run returns.
C22_FramesOnceMetricsPerPose ==
    call.fn = "analyze_video_file" =>
        /\ Len(call.processed) <= Len(call.video)
        /\ \A i \in 1 .. Len(call.processed) : call.processed[i] = call.video[i]
        /\ call.frames_processed = Len(call.processed)
        /\ Len(call.all_metrics)
               = Cardinality(WithLandmarks(call.processed, Len(call.processed)))
        /\ Len(call.all_metrics) <= call.frames_processed
        /\ \A i \in WithLandmarks(call.processed, Len(call.processed)) :
               call.all_metrics[Cardinality(WithLandmarks(call.processed, i))]
                   = call.processed[i].metrics
        /\ IF VideoReturned
           THEN /\ call.processed = call.video
                /\ call.evaluations = <<call.all_metrics>>
           ELSE call.evaluations = <<>>

\* A run over three frames, the second without landmarks, has returned.
C22_Witness ==
    /\ VideoReturned
    /\ Len(call.video) = 3
    /\ call.video[1].landmarks /\ ~call.video[2].landmarks /\ call.video[3].landmarks
    /\ call.video[1] # call.video[3]
    /\ Len(call.all_metrics) = 2
    /\ call.result[1].video_info.frames_processed = 3

\* -------------------------------------------------------------------- C23
\* The four statuses of a job.
Statuses == {"initiated", "processing", "completed", "failed"}

\* C23: a record enters the store as initiated, and every step that changes
\* its status takes it from initiated to processing or from processing to
\* completed or failed; no other status is ever stored.
C23_StatusOnlyMovesForward ==
    [][ \A id \in DOMAIN analysis_results' :
            LET after == analysis_results'[id].status
            IN  /\ after \in Statuses
                /\ id \notin DOMAIN analysis_results => after = "initiated"
                /\ id \in DOMAIN analysis_results =>
                       LET before == analysis_results[id].status
                       IN  \/ after = before
                           \/ before = "initiated" /\ after = "processing"
                           \/ before = "processing" /\ after \in Terminal ]_vars

\* -------------------------------------------------------------------- C24
\* The references that are URLs of remote videos.
RemoteUrls == {"https://youtu.be/cover-drive"}

\* C24: a job submitted with the URL of a remote video has the video
\* downloaded before it is analysed, so its record never fails with the
\* analyzer's message that no file of the URL's name exists.
C24_RemoteReferenceIsDownloaded ==
    \A k \in DOMAIN runners :
        /\ ~runners[k].is_uploaded
        /\ RecordOf(k).video_url \in RemoteUrls
        /\ runners[k].analyzer_calls > 0
        => RecordOf(k).error_message
              # Some("Video analysis failed: Video file not found: "
                     \o RecordOf(k).video_url)

\* -------------------------------------------------------------------- C26
\* C26: in every record, completed_at is set exactly when the status is
\* completed or failed, scores, feedback and metrics_summary are present
\* exactly when it is completed, and error_message is set exactly when it is
\* failed.
C26_FieldsAgreeWithStatus ==
    \A id \in DOMAIN analysis_results :
        LET rec == analysis_results[id]
        IN  /\ rec.completed_at # None <=> rec.status \in {"completed", "failed"}
            /\ \A f \in {"scores", "feedback", "metrics_summary"} :
                   f \in DOMAIN rec <=> rec.status = "completed"
            /\ rec.error_message # None <=> rec.status = "failed"

\* -------------------------------------------------------------------- C29
\* C29: no step removes an identifier from the store, and what
\* get_all_analyses answers has one record, the stored one, for every
\* identifier a successful submit has handed out.
C29_StoreOnlyGrows ==
    /\ [](response.op = "list" =>
              /\ DOMAIN response.body = RunnerIds
              /\ \A id \in RunnerIds : response.body[id] = analysis_results[id])
    /\ [][ DOMAIN analysis_results \subseteq DOMAIN analysis_results' ]_vars

\* get_all_analyses has just answered two records, one of a job that has
\* ended and one of a job that has not.
C29_Witness ==
    /\ response.op = "list"
    /\ Cardinality(DOMAIN response.body) = 2
    /\ \E id \in DOMAIN response.body : response.body[id].status = "failed"
    /\ \E id \in DOMAIN response.body : response.body[id].status = "processing"

\* -------------------------------------------------------------------- C25
\* The band of the value n/d: 2 in the excellent range, 1 in the good range
\* outside the excellent one, 0 outside the good range or when the value is 0.
BandRank(n, d, thresholds) ==
    IF n = 0 THEN 0
    ELSE IF InRange(n, d, thresholds.excellent) THEN 2
    ELSE IF InRange(n, d, thresholds.good) THEN 1
    ELSE 0

\* C25: with each of the three default bands, the score _score_metric
\* returns for a value is strictly higher than every score, under every
\* random draw, of every value of a worse band: excellent above good, good
\* above the values outside the good range and the value 0.
C25_BetterBandScoresHigher ==
    call.fn = "_score_metric" /\ call.result # None =>
        \A other \in ScoreValues, r \in RandomDraws :
            BandRank(call.value[1], call.value[2], call.thresholds)
                > BandRank(other[1], other[2], call.thresholds)
            => call.result[1] > ScoreMetric(other, call.thresholds, r)

\* _score_metric has answered 5, the highest score outside the good range,
\* for a value just beyond the upper bound of the good range.
C25_Witness ==
    /\ call.fn = "_score_metric"
    /\ call.result = Some(5)
    /\ call.value = Whole(call.thresholds.good[2] + 1)

\* -------------------------------------------------------------------- C27
\* The affirming first line of each category scored by _score_metric.
AffirmingLine ==
    [footwork |-> "Good foot positioning towards the target",
     swing_control |-> "Good elbow positioning for controlled swing",
     balance |-> "Good spine angle for balanced shot execution"]
\* The corrective first lines of each such category.
CorrectiveLines ==
    [footwork |-> {"Try to point your front foot more towards the target",
                   "Front foot is pointing too wide, align more towards the pitch"},
     swing_control |-> {"Try to keep your front elbow higher during the shot",
                        "Front elbow is too high, lower it slightly for better control"},
     balance |-> {"Lean slightly forward for better balance and power",
                  "Reduce forward lean to maintain better balance"}]

\* C27: in what evaluate_technique returns for a non-empty list, the first
\* feedback line of footwork, swing_control and balance is the affirming
\* line exactly when the category's score is at least 6 and a corrective
\* line exactly when it is at most 5.
C27_FeedbackAgreesWithScore ==
    call.fn = "evaluate_technique" /\ call.result # None /\ call.all_metrics # <<>> =>
        \A c \in DOMAIN AffirmingLine :
            LET score == call.result[1].scores[c]
                line == call.result[1].feedback[c][1]
            IN  /\ line = AffirmingLine[c] <=> score >= 6
                /\ line \in CorrectiveLines[c] <=> score <= 5

\* evaluate_technique has affirmed an elbow angle on the lower bound of its
\* good range and corrected the spine lean and the foot angle.
C27_Witness ==
    /\ call.fn = "evaluate_technique"
    /\ call.result # None
    /\ call.all_metrics # <<>>
    /\ call.result[1].metrics_summary.elbow_angle = Whole(90)
    /\ call.result[1].feedback.swing_control[1] = AffirmingLine.swing_control
    /\ call.result[1].feedback.balance[1] \in CorrectiveLines.balance
    /\ call.result[1].scores.footwork <= 5

\* -------------------------------------------------------------------- C28
\* C28: under the scheduling of the background tasks, every job that is in
\* the store eventually has the status completed or failed.
C28_EveryJobEnds ==
    \A id \in JobIds :
        (id \in DOMAIN analysis_results)
            ~> (id \in DOMAIN analysis_results
                /\ analysis_results[id].status \in Terminal)

\* Two jobs have ended, one completed after its frame was read and one
\* failed, and both runners are through.
C28_Witness ==
    /\ \A k \in DOMAIN runners : runners[k].pc = "done"
    /\ \E k \in DOMAIN runners :
          RecordOf(k).status = "completed" /\ Len(runners[k].frames) = MaxFrames
    /\ \E k \in DOMAIN runners : RecordOf(k).status = "failed"

====
